---- MODULE Spec2Model ----
(***************************************************************************)
(* DataSafe: the archive-and-catalog pipeline.                             *)
(*   core.py    SourceDirectory, BackupArchive, CompressionType            *)
(*   models.py  DirectoryModel, BackupModel, DatabaseManager               *)
(*   manager.py BackupManager (__init__, save_backup_metadata, close)      *)
(*   app.py     main                                                       *)
(*                                                                         *)
(* Names are sequences of one-character strings.  A source tree is the set *)
(* of entries Path.rglob("*") finds under the source root.  The backup     *)
(* root is a function from file names to what is stored under that name.   *)
(* The catalog is the two tables of backups.db plus the rows the run's     *)
(* session has flushed but not yet committed.                              *)
(***************************************************************************)
EXTENDS Integers, Sequences, FiniteSets, TLC

\* ------------------------------------------------------------------ bounds
\* Number of times main() is run against the same catalog and backup root.
MaxRuns == 2
\* The clock counts ticks; it stops at MaxClock.
MaxClock == 2
\* Ticks per wall-clock second: strftime('%Y-%m-%d-%H%M%S') drops the rest.
TicksPerSecond == 2
\* Longest name handed to _make_safe_name.
MaxNameLen == 2

\* ------------------------------------------------------------ Optional[int]
None == <<>>
Some(n) == <<n>>

\* ------------------------------------------------------------- source trees
\* st_size is what Path.stat() reports (stat follows symbolic links).
FileA == [path |-> <<"a.txt">>, kind |-> "file", st_size |-> 5]
DirSub == [path |-> <<"sub">>, kind |-> "dir", st_size |-> 0]
FileB == [path |-> <<"sub", "b.txt">>, kind |-> "file", st_size |-> 3]
LinkF == [path |-> <<"lnk">>, kind |-> "link_file", st_size |-> 5]
LinkD == [path |-> <<"dlnk">>, kind |-> "link_dir", st_size |-> 0]
LinkX == [path |-> <<"dead">>, kind |-> "link_dead", st_size |-> 0]
Universe == {FileA, DirSub, FileB, LinkF, LinkD, LinkX}

\* Every tree over the universe: an entry below sub needs sub.
Trees == {t \in SUBSET Universe : FileB \in t => DirSub \in t}

\* The tree of the end-to-end scenario: Notes/a.txt, Notes/sub/b.txt.
NotesTree == {FileA, DirSub, FileB}

\* What is found at the source path: a directory holding a tree, a regular
\* file, or nothing.
Dir(name, tree) == [name |-> name, kind |-> "dir", tree |-> tree, mtime |-> 0]
NoDir(name, kind) == [name |-> name, kind |-> kind, tree |-> {}, mtime |-> 0]

NameSp == <<"N", " ", "s">>
NameCo == <<"N", ":", "s">>
NamePl == <<"d">>

\* ---------------------------------------------------------- CompressionType
CompressionType == {"tar", "tar.gz", "zip"}

\* Mutant of has_value: every value passes.
has_value_Any(value) == TRUE

has_value(value) == value \in CompressionType

\* The value of a compression type that is no member of CompressionType.
OtherType == "rar"

\* ------------------------------------------------------------ SourceDirectory
Reserved == {"<", ">", ":", "\"", "/", "\\", "|", "?", "*"}

\* Mutant of _make_safe_name: the re.sub of the reserved characters is left out.
_make_safe_name_SpacesOnly(name) ==
    [i \in 1..Len(name) |-> IF name[i] = " " THEN "_" ELSE name[i]]

_make_safe_name(name) ==
    LET spaced == [i \in 1..Len(name) |-> IF name[i] = " " THEN "_" ELSE name[i]]
    IN  [i \in 1..Len(spaced) |-> IF spaced[i] \in Reserved THEN "_" ELSE spaced[i]]

\* Mutant of is_file: symbolic links are not followed.
is_file_NoFollow(f) == f.kind = "file"

\* Path.is_file(): follows symbolic links, False for a dangling one.
is_file(f) == f.kind \in {"file", "link_file"}

RECURSIVE SumSizes(_)
SumSizes(S) ==
    IF S = {} THEN 0
    ELSE LET f == CHOOSE x \in S : TRUE IN f.st_size + SumSizes(S \ {f})

\* _get_size: walkOk = FALSE is an exception raised during the traversal.
_get_size(tree, walkOk) ==
    IF walkOk THEN SumSizes({f \in tree : is_file(f)}) ELSE 0


\* An object that was not constructed.
Unset == <<>>

\* The fields of a constructed SourceDirectory.  statOk = FALSE is a failing
\* path.stat(), walkOk = FALSE a failing traversal; both are absorbed.
SourceFields(src, calculate_size, statOk, walkOk, t) ==
    [path |-> src.name,
     name |-> _make_safe_name(src.name),
     date |-> IF statOk THEN src.mtime
              ELSE (t \div TicksPerSecond) * TicksPerSecond,
     size |-> IF calculate_size THEN Some(_get_size(src.tree, walkOk)) ELSE None]

\* Mutant of SourceDirectory: the path is not validated.
SourceDirectory_Unchecked(src, calculate_size, statOk, walkOk, t) ==
    [raised |-> FALSE, error |-> "",
     source |-> SourceFields(src, calculate_size, statOk, walkOk, t)]

\* SourceDirectory(path, calculate_size).__post_init__: src is what the file
\* system holds at the path, t the clock.
SourceDirectory(src, calculate_size, statOk, walkOk, t) ==
    IF src.kind # "dir"
    THEN [raised |-> TRUE, error |-> "ValueError: not a valid directory",
          source |-> Unset]
    ELSE [raised |-> FALSE, error |-> "",
          source |-> SourceFields(src, calculate_size, statOk, walkOk, t)]

\* -------------------------------------------------------------- BackupArchive
\* Path.home() / ".backups"
BackupPath == "~/.backups"

\* strftime('%Y-%m-%d-%H%M%S'): second resolution.
strftime(t) == ToString(t \div TicksPerSecond)

\* Mutant of _make_backup_name: the time stamp is left out.
_make_backup_name_NoStamp(source_name, backup_date) ==
    _make_safe_name(source_name)

_make_backup_name(source_name, backup_date) ==
    _make_safe_name(source_name) \o <<"-">> \o <<strftime(backup_date)>>

_get_backup_file_path(backup_name, compressed, compression_type) ==
    LET ext == IF compressed THEN compression_type ELSE ""
    IN  IF ext # "" THEN backup_name \o <<".">> \o <<ext>> ELSE backup_name

\* os.stat() of an entry says directory (it follows symbolic links).
stat_is_dir(f) == f.kind \in {"dir", "link_dir"}

\* Mutant of ZipMember: the member is named by its relative path alone.
ZipMember_NoRoot(source_name, f) ==
    [root |-> <<>>, rel |-> f.path,
     type |-> IF stat_is_dir(f) THEN "dir" ELSE "file",
     st_size |-> IF stat_is_dir(f) THEN 0 ELSE f.st_size]

\* zipf.write(str(file), arcname=Path(source.name) / file.relative_to(...)):
\* one member per entry handed to it, a directory member for a directory.
ZipMember(source_name, f) ==
    [root |-> source_name, rel |-> f.path,
     type |-> IF stat_is_dir(f) THEN "dir" ELSE "file",
     st_size |-> IF stat_is_dir(f) THEN 0 ELSE f.st_size]

\* tar.add(path, arcname=source.name): the root, then every entry below it;
\* symbolic links are stored as links.
TarMember(source_name, f) ==
    [root |-> source_name, rel |-> f.path,
     type |-> IF f.kind = "dir" THEN "dir"
              ELSE IF f.kind = "file" THEN "file" ELSE "symlink",
     st_size |-> IF f.kind = "file" THEN f.st_size ELSE 0]

TarRoot(source_name) ==
    [root |-> source_name, rel |-> <<>>, type |-> "dir", st_size |-> 0]

\* shutil.copytree (symlinks=False): the content a link points to is copied.
CopyMember(source_name, f) ==
    [root |-> source_name, rel |-> f.path,
     type |-> IF stat_is_dir(f) THEN "dir" ELSE "file",
     st_size |-> IF stat_is_dir(f) THEN 0 ELSE f.st_size]

HasDead(tree) == \E f \in tree : f.kind = "link_dead"

\* What the write step does to the file system.  io is what the file system
\* answers: "ok", "fail_open" (the destination cannot be created) or
\* "fail_mid" (an error after the destination was created, with the entries
\* of `written` already stored).  A dangling link makes zipf.write and
\* copytree raise; tarfile stores it as a link.
\*   ok      the step returned
\*   made    the file or tree now at the destination (unused when ~created)
_compress(source_name, tree, compression_type, io, written) ==
    LET stops == io # "ok" \/ (compression_type = "zip" /\ HasDead(tree))
        part  == {f \in written : f.kind # "link_dead"}
    IN  IF compression_type \in {"tar", "tar.gz"}
        THEN [ok |-> ~stops, created |-> io # "fail_open",
              made |-> [kind |-> compression_type,
                        members |-> IF stops
                                    THEN {TarMember(source_name, f) : f \in written}
                                    ELSE {TarRoot(source_name)} \cup
                                         {TarMember(source_name, f) : f \in tree}]]
        ELSE IF compression_type = "zip"
        THEN [ok |-> ~stops, created |-> io # "fail_open",
              made |-> [kind |-> "zip",
                        members |-> IF stops
                                    THEN {ZipMember(source_name, f) : f \in part}
                                    ELSE {ZipMember(source_name, f) : f \in tree}]]
        ELSE [ok |-> FALSE, created |-> FALSE,
              made |-> [kind |-> compression_type, members |-> {}]]

\* Mutant of _move: an existing destination is copied over.
_move_Overwrites(source_name, tree, root, io, written) ==
    [ok |-> io = "ok" /\ ~HasDead(tree), created |-> io # "fail_open", skipped |-> FALSE,
     made |-> [kind |-> "tree",
               members |-> {CopyMember(source_name, f) :
                              f \in {g \in (IF io = "ok" THEN tree ELSE written) :
                                       g.kind # "link_dead"}}]]

\* _move: dest = backup_path / source.name; skipped when dest exists.
_move(source_name, tree, root, io, written) ==
    LET dest  == source_name
        stops == io # "ok" \/ HasDead(tree)
        part  == IF io = "ok" THEN tree ELSE written
    IN  IF dest \in DOMAIN root
        THEN [ok |-> TRUE, created |-> FALSE, skipped |-> TRUE,
              made |-> [kind |-> "tree", members |-> {}]]
        ELSE [ok |-> ~stops, created |-> io # "fail_open", skipped |-> FALSE,
              made |-> [kind |-> "tree",
                        members |-> {CopyMember(source_name, f) :
                                       f \in {g \in part : g.kind # "link_dead"}}]]

\* backup_file.stat().st_size of a written archive: it grows with the number
\* of members and with what they hold, and is never 0.
stat_size(file) == 1 + Cardinality(file.members) + SumSizes(file.members)


\* Mutant of MeasuredSize: the size is never measured.
MeasuredSize_Skipped(after, backup_file) == None

\* The size measured after _compress returned: backup_file.stat().st_size if
\* backup_file.exists() else None.
MeasuredSize(after, backup_file) ==
    IF backup_file \in DOMAIN after THEN Some(stat_size(after[backup_file])) ELSE None

\* What __post_init__ hands back when it returns: the archive's fields, the
\* backup root after the call and what was logged.
Returned(archive, after, logged) ==
    [raised |-> FALSE, error |-> "", archive |-> archive, root |-> after, log |-> logged]

\* What it leaves when it raises.
Aborted(error, after, logged) ==
    [raised |-> TRUE, error |-> error, archive |-> Unset, root |-> after, log |-> logged]

\* Mutant of OnWriteFailure: the exception is logged and raised again.
OnWriteFailure_Raises(fields, after, message) ==
    Aborted("OSError: write", after, <<message>>)

\* The except clauses of the write step: the exception is logged, the size is
\* None and construction goes on.
OnWriteFailure(fields, after, message) ==
    Returned(fields @@ [compressed_size |-> None], after, <<message>>)

\* BackupArchive(source, compressed, compression_type=...).__post_init__.
\*   source      the SourceDirectory, tree the entries under its path
\*   root        the backup root before the call, t the clock (backup_date)
\*   mkdirOk     backup_path.mkdir succeeds
\*   io, written see _compress
BackupArchive(source, tree, compressed, compression_type, root, t, mkdirOk, io, written) ==
    IF compressed /\ ~has_value(compression_type)
    THEN Aborted("ValueError: unsupported compression type", root, <<>>)
    ELSE IF ~mkdirOk
    THEN Aborted("OSError: mkdir", root, <<"Failed to create backup path">>)
    ELSE
    LET backup_name == _make_backup_name(source.name, t)
        backup_file == _get_backup_file_path(backup_name, compressed, compression_type)
        fields == [compressed |-> compressed,
                   backup_path |-> BackupPath,
                   backup_name |-> backup_name,
                   backup_date |-> t,
                   compression_type |-> compression_type,
                   backup_file |-> backup_file]
    IN  IF compressed
        THEN LET w     == _compress(source.name, tree, compression_type, io, written)
                 after == IF w.created THEN (backup_file :> w.made) @@ root ELSE root
             IN  IF w.ok
                 THEN Returned(fields @@
                               [compressed_size |-> MeasuredSize(after, backup_file)],
                               after, <<>>)
                 ELSE OnWriteFailure(fields, after, "Compression failed")
        ELSE LET w     == _move(source.name, tree, root, io, written)
                 after == IF w.created THEN (source.name :> w.made) @@ root ELSE root
             IN  IF w.ok
                 THEN Returned(fields @@ [compressed_size |-> None], after,
                               IF w.skipped THEN <<"Skipping move">> ELSE <<>>)
                 ELSE OnWriteFailure(fields, after, "Move failed")

\* ------------------------------------------------------------------ catalog
\* The tables are sequences of rows in insertion order.  A session holds the
\* rows it has flushed (INSERTed inside its open transaction) and not yet
\* committed; they are visible through the session until commit or rollback.
NoSession == [state |-> "none", directories |-> <<>>, backups |-> <<>>]

\* DatabaseManager().get_session()
get_session == [state |-> "open", directories |-> <<>>, backups |-> <<>>]

\* The rows of a table as the session sees them.
Rows(table, flushed) == table \o flushed

\* Integer primary key: one more than the largest key of the table.
RECURSIVE MaxId(_)
MaxId(rows) ==
    IF rows = <<>> THEN 0
    ELSE LET m == MaxId(Tail(rows)) IN IF Head(rows).id > m THEN Head(rows).id ELSE m

NextId(rows) == MaxId(rows) + 1

DirectoryModel(id, source_dir) ==
    [id |-> id,
     name |-> source_dir.name,
     path |-> source_dir.path,
     size |-> source_dir.size,
     date |-> source_dir.date]

BackupModel(id, directory_id, backup_archive) ==
    [id |-> id,
     directory_id |-> directory_id,
     backup_name |-> backup_archive.backup_name,
     backup_path |-> backup_archive.backup_path,
     backup_size |-> backup_archive.compressed_size,
     backup_date |-> backup_archive.backup_date,
     compressed |-> backup_archive.compressed,
     compression_type |-> IF backup_archive.compressed
                          THEN Some(backup_archive.compression_type) ELSE None,
     compressed_size |-> backup_archive.compressed_size]

\* Mutant of SessionRollback: the rollback is left out.
SessionRollback_Missing(sess) == sess

\* session.rollback(): the open transaction is undone.
SessionRollback(sess) == [sess EXCEPT !.directories = <<>>, !.backups = <<>>]

\* session.close()
SessionClose(sess) ==
    [sess EXCEPT !.state = "closed", !.directories = <<>>, !.backups = <<>>]

\* Mutant of DirectoryIdOf: the key is read before the flush assigned it.
DirectoryIdOf_Unflushed(dir_mod) == 0

\* The key save_backup_metadata stores in BackupModel.directory_id: dir_mod.id
\* after session.flush().
DirectoryIdOf(dir_mod) == dir_mod.id

\* The exception the catalog raises at a fault.
CatalogError(fault) == "SQLAlchemyError: " \o fault

\* BackupManager.save_backup_metadata.  fault is where the catalog fails:
\* "none", "flush" (the directory INSERT), "insert" (the backup INSERT, sent
\* by commit) or "commit".  The result holds the tables and the session
\* after the call.
save_backup_metadata(source_dir, backup_archive, dirs, bkps, sess, fault) ==
    LET dir_mod    == DirectoryModel(NextId(Rows(dirs, sess.directories)), source_dir)
        flushed    == [sess EXCEPT !.directories = Append(@, dir_mod)]
        backup_mod == BackupModel(NextId(Rows(bkps, sess.backups)),
                                  DirectoryIdOf(dir_mod), backup_archive)
        inserted   == [flushed EXCEPT !.backups = Append(@, backup_mod)]
        failedAt   == IF fault = "flush" THEN sess
                      ELSE IF fault = "insert" THEN flushed
                      ELSE inserted
    IN  IF fault = "none"
        THEN [raised |-> FALSE, error |-> "",
              directories |-> Rows(dirs, inserted.directories),
              backups |-> Rows(bkps, inserted.backups),
              session |-> [inserted EXCEPT !.directories = <<>>, !.backups = <<>>],
              log |-> <<>>]
        ELSE [raised |-> TRUE, error |-> CatalogError(fault),
              directories |-> dirs,
              backups |-> bkps,
              session |-> SessionRollback(failedAt),
              log |-> <<"Failed to save backup metadata">>]


\* ------------------------------------------------------------- BackupManager
\* BackupManager.__init__ after the session is obtained: SourceDirectory,
\* then BackupArchive; an exception of either is logged and raised again.
\* `in` holds the arguments and what the file system answers during the call.
BackupManager_init(in, root, t) ==
    LET sd == SourceDirectory(in.src, in.calculate_size, in.statOk, in.walkOk, t)
    IN  IF sd.raised
        THEN [raised |-> TRUE, error |-> sd.error,
              source_dir |-> Unset, backup_archive |-> Unset, root |-> root,
              log |-> <<"not a valid directory", "BackupManager initialization failed">>]
        ELSE LET ba == BackupArchive(sd.source, in.src.tree, in.compressed, in.compression_type,
                                     root, t, in.mkdirOk, in.io, in.written)
             IN  IF ba.raised
                 THEN [raised |-> TRUE, error |-> ba.error,
                       source_dir |-> sd.source, backup_archive |-> Unset, root |-> ba.root,
                       log |-> ba.log \o <<"BackupManager initialization failed">>]
                 ELSE [raised |-> FALSE, error |-> "",
                       source_dir |-> sd.source, backup_archive |-> ba.archive, root |-> ba.root,
                       log |-> ba.log]

\* --------------------------------------------------------------------- state
VARIABLES
    pc,             \* where main() is: idle, main, constructed, saved, done, failed
    runs,           \* how many times main() was started
    now,            \* the clock, in ticks
    backupRoot,     \* file name -> what is stored under the backup root
    directories,    \* table directories, committed rows
    backups,        \* table backups, committed rows
    session,        \* the session of the run's BackupManager
    source_dir,     \* BackupManager.source_dir
    backup_archive, \* BackupManager.backup_archive
    input,          \* the arguments of the run's BackupManager(...) call
    error,          \* the exception main() caught, "" when none
    log,            \* what the run logged at error or warning level
    atStart,        \* history: the tables and the backup root when the run began
    raw,            \* a name as it is handed to _make_safe_name the first time
    safe,           \* what _make_safe_name made of it so far
    calls           \* how many times _make_safe_name was applied to it

nameVars == <<raw, safe, calls>>

vars == <<pc, runs, now, backupRoot, directories, backups, session,
          source_dir, backup_archive, input, error, log, atStart, raw, safe, calls>>

Snapshot == [directories |-> directories, backups |-> backups, root |-> backupRoot]

InitRun ==
    /\ pc = "idle"
    /\ runs = 0
    /\ now = 0
    /\ backupRoot = <<>>
    /\ directories = <<>>
    /\ backups = <<>>
    /\ session = NoSession
    /\ source_dir = Unset
    /\ backup_archive = Unset
    /\ input = Unset
    /\ error = ""
    /\ log = <<>>
    /\ atStart = [directories |-> <<>>, backups |-> <<>>, root |-> <<>>]

Init ==
    /\ InitRun
    /\ raw = <<>>
    /\ safe = <<>>
    /\ calls = 0

\* -------------------------------------------------------------------- inputs
\* (compressed, compression_type): the copy, the three formats, and a format
\* CompressionType does not have.
Modes ==
    {<<FALSE, "zip">>} \cup {<<TRUE, c>> : c \in CompressionType} \cup {<<TRUE, OtherType>>}

\* What can be stored before a write fails midway: any part of the tree.  A
\* zip build stops at a dangling link, with the entries the traversal gave
\* before it stored; the traversal's order is the file system's.
WrittenChoices(tree, mode, mkdirOk, io) ==
    IF mkdirOk /\ (io = "fail_mid" \/ (mode = <<TRUE, "zip">> /\ HasDead(tree)))
    THEN SUBSET tree ELSE {tree}

\* Every source over the universe, under one name.
AllSources ==
    {Dir(NameSp, t) : t \in Trees} \cup {NoDir(NameSp, k) : k \in {"file", "missing"}}

\* The sources of repeated runs: one directory at two moments, with
\* different content; a directory of another name and the same safe name;
\* two paths that are no directory.
RunSources ==
    {Dir(NameSp, {FileA}), Dir(NameSp, {DirSub}), Dir(NameCo, {FileA}),
     NoDir(NamePl, "missing"), NoDir(NameSp, "file")}

\* ------------------------------------------------------------------- actions
\* app.py main, up to the BackupManager(...) call: a new process, the schema
\* ensured.
Main_Begin ==
    /\ pc \in {"idle", "done", "failed"}
    /\ runs < MaxRuns
    /\ pc' = "main"
    /\ runs' = runs + 1
    /\ session' = NoSession
    /\ source_dir' = Unset
    /\ backup_archive' = Unset
    /\ input' = Unset
    /\ error' = ""
    /\ log' = <<>>
    /\ atStart' = Snapshot
    /\ UNCHANGED <<now, backupRoot, directories, backups>>
    /\ UNCHANGED nameVars

\* backup_mgr = BackupManager(path, calculate_size, compressed, compression_type)
\* as main() runs it: an exception ends main() in its handler, which logs it.
\* Sources, Flags and Answers are what the run may be given: the sources, the
\* values of calculate_size and of the absorbed stat and traversal failures,
\* and the answers of the file system to the write step.
BackupManagerInit(Sources, Flags, Answers) ==
    /\ pc = "main"
    /\ \E src \in Sources, calculate_size \in Flags, statOk \in Flags, mode \in Modes,
          mkdirOk \in BOOLEAN, io \in Answers :
       \E walkOk \in (IF calculate_size THEN Flags ELSE {TRUE}),
          written \in WrittenChoices(src.tree, mode, mkdirOk, io) :
          LET in == [src |-> src, calculate_size |-> calculate_size,
                     compressed |-> mode[1], compression_type |-> mode[2],
                     statOk |-> statOk, walkOk |-> walkOk, mkdirOk |-> mkdirOk,
                     io |-> io, written |-> written]
              r  == BackupManager_init(in, backupRoot, now)
          IN  /\ (~mkdirOk => io = "ok")   \* no write step without a backup root
              /\ input' = in
              /\ session' = get_session
              /\ source_dir' = r.source_dir
              /\ backup_archive' = r.backup_archive
              /\ backupRoot' = r.root
              /\ error' = r.error
              /\ log' = log \o r.log \o (IF r.raised THEN <<"Fatal error">> ELSE <<>>)
              /\ pc' = IF r.raised THEN "failed" ELSE "constructed"
    /\ UNCHANGED <<runs, now, directories, backups, atStart>>
    /\ UNCHANGED nameVars

\* backup_mgr.save_backup_metadata() as main() runs it.
SaveBackupMetadata ==
    /\ pc = "constructed"
    /\ \E fault \in {"none", "flush", "insert", "commit"} :
          LET r == save_backup_metadata(source_dir, backup_archive,
                                        directories, backups, session, fault)
          IN  /\ directories' = r.directories
              /\ backups' = r.backups
              /\ session' = r.session
              /\ error' = r.error
              /\ log' = log \o r.log \o (IF r.raised THEN <<"Fatal error">> ELSE <<>>)
              /\ pc' = IF r.raised THEN "failed" ELSE "saved"
    /\ UNCHANGED <<runs, now, backupRoot, source_dir, backup_archive, input, atStart>>
    /\ UNCHANGED nameVars

\* backup_mgr.close() as main() runs it, after a save that returned.
Close ==
    /\ pc = "saved"
    /\ session' = SessionClose(session)
    /\ pc' = "done"
    /\ UNCHANGED <<runs, now, backupRoot, directories, backups, source_dir,
                   backup_archive, input, error, log, atStart>>
    /\ UNCHANGED nameVars

\* Time passes.  The clock is read once a run, by BackupManager(...), so it
\* is enough to let it advance before that call.
Tick ==
    /\ pc = "main"
    /\ now < MaxClock
    /\ now' = now + 1
    /\ UNCHANGED <<pc, runs, backupRoot, directories, backups, session,
                   source_dir, backup_archive, input, error, log, atStart>>
    /\ UNCHANGED nameVars

\* Repeated runs of main() against one catalog and one backup root.
Next ==
    \/ Main_Begin
    \/ BackupManagerInit(RunSources, {TRUE}, {"ok", "fail_open"})
    \/ SaveBackupMetadata
    \/ Close
    \/ Tick

Spec == Init /\ [][Next]_vars

\* One run of main() over every source tree and every absorbed failure.
NextOne ==
    \/ (runs = 0 /\ Main_Begin)
    \/ BackupManagerInit(AllSources, BOOLEAN, {"ok", "fail_open", "fail_mid"})
    \/ SaveBackupMetadata
    \/ Close
    \/ Tick

SpecOne == Init /\ [][NextOne]_vars

\* ------------------------------------------------------------ names
\* The characters names are made of: the space, the nine characters of the
\* pattern of _make_safe_name, and characters it has nothing to do with.
Alphabet == {" ", "<", ">", ":", "\"", "/", "\\", "|", "?", "*", "a", "_", "."}

Names == UNION {[1..n -> Alphabet] : n \in 0..MaxNameLen}

InitNames ==
    /\ InitRun
    /\ raw \in Names
    /\ safe = raw
    /\ calls = 0

\* _make_safe_name applied to the name: to path.name by SourceDirectory, and
\* to the outcome of that, source.name, by _make_backup_name.
MakeSafeName ==
    /\ calls < 2
    /\ safe' = _make_safe_name(safe)
    /\ calls' = calls + 1
    /\ UNCHANGED <<raw, pc, runs, now, backupRoot, directories, backups, session,
                   source_dir, backup_archive, input, error, log, atStart>>

NextNames == MakeSafeName

SpecNames == InitNames /\ [][NextNames]_vars


\* ------------------------------------------------------------------- claims
\* The run has a SourceDirectory and a BackupArchive: BackupManager(...) returned.
Constructed == pc \in {"constructed", "saved", "done"}

\* main() has returned.
Exited == pc \in {"done", "failed"}

\* The write step of the run's BackupArchive raised.
WriteFailed ==
    \E i \in 1..Len(log) : log[i] \in {"Compression failed", "Move failed"}

\* The run's save_backup_metadata went through its except clause.
SaveRaised ==
    \E i \in 1..Len(log) : log[i] = "Failed to save backup metadata"

\* main() caught the exception of save_backup_metadata.
SaveFailed ==
    pc = "failed" /\ error \in {CatalogError(f) : f \in {"flush", "insert", "commit"}}

\* C1: when main() has returned, on whatever path, the session its
\* BackupManager opened has been released.
C1_SessionReleasedOnEveryExit ==
    (Exited /\ session.state # "none") => session.state = "closed"

\* C2: when save_backup_metadata raises, at the directory insert, the backup
\* insert or the commit, the error reaches main() and both tables are as they
\* were before the call, with no flushed row left in the session.
C2_SaveIsAtomic ==
    SaveRaised =>
        /\ SaveFailed
        /\ directories = atStart.directories
        /\ backups = atStart.backups
        /\ Rows(directories, session.directories) = atStart.directories
        /\ Rows(backups, session.backups) = atStart.backups

\* C2 witness: the backup insert failed after the directory row was flushed,
\* in a run against a catalog that already held rows.
C2_Witness ==
    /\ SaveRaised
    /\ error = CatalogError("insert")
    /\ Len(directories) > 0

\* C3: a run whose source path is missing or is no directory ends in main()'s
\* handler with the ValueError of the inspection; nothing was written under
\* the backup root, no archive object exists and neither table has a new row.
C3_InvalidSourceWritesNothing ==
    (pc \notin {"idle", "main"} /\ input.src.kind # "dir") =>
        /\ pc = "failed"
        /\ error = "ValueError: not a valid directory"
        /\ backupRoot = atStart.root
        /\ directories = atStart.directories
        /\ backups = atStart.backups
        /\ session.directories = <<>>
        /\ session.backups = <<>>

\* C3 witness: a run on a missing path has failed.
C3_Witness ==
    /\ pc = "failed"
    /\ input.src.kind = "missing"

\* C4: when the write step raised, construction completed with
\* compressed_size None; the run fails only if the catalog write itself
\* fails, and otherwise inserts a directory row and a backup row that
\* describes the archive with a null size.
C4_WriteFailureAbsorbed ==
    WriteFailed =>
        /\ Constructed \/ SaveFailed
        /\ backup_archive.compressed_size = None
        /\ pc \in {"saved", "done"} =>
              /\ Len(directories) = Len(atStart.directories) + 1
              /\ Len(backups) = Len(atStart.backups) + 1
              /\ directories[Len(directories)].path = input.src.name
              /\ backups[Len(backups)].directory_id = directories[Len(directories)].id
              /\ backups[Len(backups)].backup_name = backup_archive.backup_name
              /\ backups[Len(backups)].backup_size = None
              /\ backups[Len(backups)].compressed_size = None

\* C4 witness: a run whose write step raised reached DONE with no archive on
\* disk.
C4_Witness ==
    /\ pc = "done"
    /\ WriteFailed
    /\ backup_archive.backup_file \notin DOMAIN backupRoot
    /\ Len(backups) = Len(atStart.backups) + 1


\* C5 as stated: in every mode, compressed_size is None only if the write
\* step failed.
C5_NoneOnlyIfWriteFailed ==
    (Constructed /\ backup_archive.compressed_size = None) => WriteFailed

\* C5 amended: in the compressed modes compressed_size is None only if the
\* write step failed; in copy mode it is None always.
C5_NoneOnlyIfWriteFailedOrCopy ==
    Constructed =>
        /\ backup_archive.compressed =>
              (backup_archive.compressed_size = None => WriteFailed)
        /\ ~backup_archive.compressed => backup_archive.compressed_size = None

\* C5 witness: a compressed archive was constructed with size None.
C5_Witness ==
    /\ Constructed
    /\ backup_archive.compressed
    /\ backup_archive.compressed_size = None

\* The archive file the run's zip build left at backup_file.
ZipBuilt ==
    /\ Constructed
    /\ backup_archive.compressed
    /\ backup_archive.compression_type = "zip"
    /\ ~WriteFailed

\* C6 as stated: the members of a built zip are the regular files of the
\* tree, one member each, named safe_name/<relative path>, and nothing else.
C6_ZipHoldsRegularFilesOnly ==
    ZipBuilt =>
        backupRoot[backup_archive.backup_file].members =
            {[root |-> source_dir.name, rel |-> f.path, type |-> "file",
              st_size |-> f.st_size] : f \in {g \in input.src.tree : g.kind = "file"}}

\* C6 amended: the members of a built zip are the paths the traversal finds,
\* one member each, named safe_name/<relative path>: a file member for a
\* regular file or a link to one, a directory member for a directory or a
\* link to one; a tree with a dangling link is never built.
C6_ZipHoldsEveryPath ==
    ZipBuilt =>
        LET members == backupRoot[backup_archive.backup_file].members
            tree    == input.src.tree
        IN  /\ \A f \in tree : f.kind # "link_dead"
            /\ Cardinality(members) = Cardinality(tree)
            /\ \A m \in members : m.root = source_dir.name
            /\ \A f \in tree : \E m \in members :
                  /\ m.rel = f.path
                  /\ m.type = (IF f.kind \in {"dir", "link_dir"} THEN "dir" ELSE "file")
            /\ \A m \in members : \E f \in tree : m.rel = f.path

\* C6 witness: the zip of Notes/a.txt, Notes/sub/b.txt holds three members.
C6_Witness ==
    /\ ZipBuilt
    /\ input.src.tree = NotesTree
    /\ Cardinality(backupRoot[backup_archive.backup_file].members) = 3

\* The run computed a size and the traversal did not raise.
SizeComputed ==
    /\ Constructed
    /\ input.calculate_size
    /\ input.walkOk

C8_OneArtifactAtBackupFile ==
    (Constructed /\ ~WriteFailed) =>
        (DOMAIN backupRoot) \ (DOMAIN atStart.root) = {backup_archive.backup_file}

\* A copy run that found its destination already there.
CopyCollides ==
    /\ pc \notin {"idle", "main"}
    /\ input.src.kind = "dir"
    /\ input.mkdirOk
    /\ ~input.compressed
    /\ _make_safe_name(input.src.name) \in DOMAIN atStart.root

\* C9: a copy run that finds backup_root/safe_name already there raises
\* nothing, logs no failure and leaves the backup root, and so the tree
\* copied before, exactly as it was.
C9_SecondCopyIsNoOp ==
    CopyCollides =>
        /\ Constructed \/ SaveFailed
        /\ ~WriteFailed
        /\ backupRoot = atStart.root

\* C9 witness: the second copy run met the tree of a first copy run, and the
\* source holds something else by now.
C9_Witness ==
    /\ CopyCollides
    /\ Constructed
    /\ atStart.root[source_dir.name].kind = "tree"
    /\ atStart.root[source_dir.name].members #
          {CopyMember(source_dir.name, f) : f \in input.src.tree}

IdsOf(rows) == {rows[i].id : i \in 1..Len(rows)}

IsPrefix(old, new) ==
    /\ Len(old) <= Len(new)
    /\ SubSeq(new, 1, Len(old)) = old

\* C10: every backup row references exactly one directory row; a run that
\* saved has appended one directory row with a fresh key and one backup row
\* referencing it, and has left the earlier rows as they were; a run that did
\* not save has changed neither table.
C10_ReferentialIntegrity ==
    /\ \A i \in 1..Len(backups) :
          Cardinality({j \in 1..Len(directories) :
                         directories[j].id = backups[i].directory_id}) = 1
    /\ IsPrefix(atStart.directories, directories)
    /\ IsPrefix(atStart.backups, backups)
    /\ pc \in {"saved", "done"} =>
          /\ Len(directories) = Len(atStart.directories) + 1
          /\ Len(backups) = Len(atStart.backups) + 1
          /\ directories[Len(directories)].id \notin IdsOf(atStart.directories)
          /\ backups[Len(backups)].id \notin IdsOf(atStart.backups)
          /\ backups[Len(backups)].directory_id = directories[Len(directories)].id
    /\ pc \notin {"saved", "done"} =>
          /\ directories = atStart.directories
          /\ backups = atStart.backups

\* C10 witness: two runs on the same path have saved; the catalog holds two
\* directory rows of that path and two backup rows.
C10_Witness ==
    /\ pc = "done"
    /\ Len(directories) = 2
    /\ Len(backups) = 2
    /\ directories[1].path = directories[2].path
    /\ backups[1].directory_id # backups[2].directory_id


\* The steps of a run: inspection and build in BackupManager(...), then the
\* recording, then the close; a failure ends the run where it happens.
RunOrder ==
    {<<"idle", "main">>, <<"done", "main">>, <<"failed", "main">>,
     <<"main", "constructed">>, <<"main", "failed">>,
     <<"constructed", "saved">>, <<"constructed", "failed">>,
     <<"saved", "done">>}

BuildErrors == {"ValueError: unsupported compression type", "OSError: mkdir"}

\* The run's source is valid and its build step cannot go on: the format is
\* none of CompressionType with compressed=True, or the backup root cannot be
\* created.
BuildFailsFatally ==
    /\ pc \notin {"idle", "main"}
    /\ input.src.kind = "dir"
    /\ \/ input.compressed /\ input.compression_type \notin CompressionType
       \/ ~input.mkdirOk

\* C11: a run moves from BackupManager(...) (inspection, then build) to the
\* recording and then to DONE, in that order; a build error is only raised
\* for a source that passed inspection; when the build fails fatally the
\* error reaches main(), the run is FAILED, save_backup_metadata was never
\* entered and neither table nor the session holds a new row.
C11_OrderAndFatalBuild ==
    [][ /\ pc' # pc => <<pc, pc'>> \in RunOrder
        /\ (pc' = "failed" /\ error' \in BuildErrors) => input'.src.kind = "dir"
        /\ BuildFailsFatally' =>
              /\ pc' = "failed"
              /\ error' \in BuildErrors
              /\ ~SaveRaised'
              /\ directories' = atStart'.directories
              /\ backups' = atStart'.backups
              /\ session'.directories = <<>>
              /\ session'.backups = <<>>
      ]_vars

\* C11 witness: a compressed run with a format CompressionType does not have
\* has failed, against a catalog that already held rows.
C11_Witness ==
    /\ BuildFailsFatally
    /\ input.compression_type = OtherType
    /\ input.mkdirOk
    /\ pc = "failed"
    /\ Len(directories) > 0


\* The characters the claim names: the space and < > : " / \ | ? *
Unsafe == {" ", "<", ">", ":", "\"", "/", "\\", "|", "?", "*"}

\* C12: for every name, _make_safe_name puts an underscore in the place of
\* each space and of each of < > : " / \ | ? *, leaves every other character
\* as it is and where it is, and its result has none of those characters; a
\* second application changes nothing.
C12_SafeName ==
    calls >= 1 =>
        /\ Len(safe) = Len(raw)
        /\ \A i \in 1..Len(raw) :
              /\ raw[i] \in Unsafe => safe[i] = "_"
              /\ raw[i] \notin Unsafe => safe[i] = raw[i]
              /\ safe[i] \notin Unsafe
        /\ _make_safe_name(safe) = safe

\* C12 witness: the function was applied twice to a name that has a space
\* and a reserved character.
C12_Witness ==
    /\ calls = 2
    /\ Len(raw) = 2
    /\ \E i, j \in 1..2 : raw[i] = " " /\ raw[j] \in Unsafe \ {" "}
    /\ safe = <<"_", "_">>


====
